---- MODULE Spec2Model ----
(***************************************************************************)
(* TaskDB (src/app.py): a Streamlit script that keeps one pandas table of  *)
(* tasks in the session state, loads it from / saves it to a CSV file and  *)
(* renders timestamps in a friendly form.                                  *)
(*                                                                         *)
(* A table cell is a typed value, as in pandas: a string, an integer, a    *)
(* float, a boolean or the missing-value marker (NaN / <NA> / None).       *)
(* A DataFrame is its column list, its index labels and its rows.          *)
(* Every action of Spec is one complete run of the script (Streamlit       *)
(* re-runs the whole file on every user event).                            *)
(***************************************************************************)
EXTENDS Integers, Sequences, FiniteSets, TLC

VARIABLES
    df,                 \* st.session_state.df
    current_filename,   \* st.session_state.current_filename
    up,                 \* the file held by the st.file_uploader widget
    notices,            \* the st.success / st.error / st.info / st.toast of the last run
    runs,               \* the number of runs of the script in this session
    event,              \* the user event that caused the last run
    content,            \* SpecNorm: the CSV text handed to pd.read_csv
    loaded,             \* SpecNorm: the outcome of read_csv + normalize_df
    iso_str,            \* SpecFmt: the argument of iso_to_friendly
    friendly            \* SpecFmt: the value iso_to_friendly returned

vars == <<df, current_filename, up, notices, runs, event, content, loaded, iso_str, friendly>>

sessionVars == <<df, current_filename, up, notices, runs, event>>
normVars == <<content, loaded>>
fmtVars == <<iso_str, friendly>>

(***************************************************************************)
(* Bounds of the model.                                                    *)
(***************************************************************************)
MaxFileRows == 2     \* data records in a CSV handed to read_csv (SpecNorm)
MaxRows == 2         \* rows the session table may grow to (Spec)
MaxRuns == 6         \* runs of the script in one session (Spec)

(***************************************************************************)
(* Program constants.                                                      *)
(***************************************************************************)
FILE_TEMPLATE_NAME == "taskdb_tasks.csv"
STATUS_OPTIONS == <<"Planned", "In Progress", "Done">>

Range(s) == {s[i] : i \in DOMAIN s}

\* the columns of make_empty_df, in order
BaseColumns == <<"Entry", "Title / Description", "Task", "Schedule", "Status">>
TextColumns == {"Entry", "Title / Description", "Task", "Schedule"}

(***************************************************************************)
(* Cells.                                                                  *)
(***************************************************************************)
NA == [kind |-> "na"]
StrCell(s) == [kind |-> "str", val |-> s]
IntCell(n) == [kind |-> "int", val |-> n]
FloatCell(n) == [kind |-> "float", val |-> n]      \* the float n.0
BoolCell(b) == [kind |-> "bool", val |-> b]

\* the texts pd.read_csv reads as a missing value (a part of its default list)
NaValues == {"", "NA", "N/A", "NaN", "nan", "null", "NULL", "None", "<NA>"}

\* the integer literals among the texts of the model, with their values
IntLiteral == [t \in {"7", "07"} |-> 7]

\* text that does not split into CSV records
NotCsv == [ok |-> FALSE, header |-> <<>>, records |-> <<>>]

\* two instants in the stored form "%Y-%m-%dT%H:%M:%S" (lines 14, 278)
T1 == "2025-10-17T17:00:00"
T2 == "2025-10-17T17:07:00"

Raise(e) == [ok |-> FALSE, err |-> e]
Return(v) == [ok |-> TRUE, df |-> v]
NotRun == [ok |-> FALSE, err |-> "not run"]

(***************************************************************************)
(* make_empty_df                                                           *)
(***************************************************************************)
make_empty_df == [columns |-> BaseColumns, index |-> <<>>, data |-> <<>>]

RangeIndex(n) == [i \in 1..n |-> i - 1]

(***************************************************************************)
(* pd.read_csv(StringIO(content)).  The text is a header record and data   *)
(* records; text that cannot be split into records raises.  Each column    *)
(* gets one type: integer when every value is an integer literal, float   *)
(* when integer literals are mixed with missing values, text otherwise;    *)
(* an empty field is a missing value.                                      *)
(***************************************************************************)
read_cell(doc, c, i) ==
    LET texts == {doc.records[k][c] : k \in DOMAIN doc.records}
        present == texts \ NaValues
        t == doc.records[i][c]
    IN  IF t \in NaValues THEN NA
        ELSE IF present \subseteq DOMAIN IntLiteral
             THEN IF texts \cap NaValues = {} THEN IntCell(IntLiteral[t])
                                             ELSE FloatCell(IntLiteral[t])
             ELSE StrCell(t)

read_csv(doc) ==
    IF ~doc.ok THEN Raise("ParserError")
    ELSE Return([columns |-> doc.header,
                 index |-> RangeIndex(Len(doc.records)),
                 data |-> [i \in DOMAIN doc.records |->
                             [c \in Range(doc.header) |-> read_cell(doc, c, i)]]])

(***************************************************************************)
(* Series.astype("string"): missing stays missing, anything else becomes   *)
(* its text.                                                               *)
(***************************************************************************)
astype_string(cell) ==
    CASE cell.kind = "na" -> NA
      [] cell.kind = "str" -> cell
      [] cell.kind = "int" -> StrCell(ToString(cell.val))
      [] cell.kind = "float" -> StrCell(ToString(cell.val) \o ".0")
      [] cell.kind = "bool" -> StrCell(IF cell.val THEN "True" ELSE "False")

(***************************************************************************)
(* normalize_df                                                            *)
(***************************************************************************)
\* lines 57-59: add the missing columns.  A scalar "" is broadcast to every
\* row; the zero-length Categorical fits a table of zero rows only.
ensure_column(r, col) ==
    IF ~r.ok \/ col \in Range(r.df.columns) THEN r
    ELSE IF col # "Status"
         THEN Return([r.df EXCEPT
                 !.columns = Append(@, col),
                 !.data = [i \in DOMAIN @ |->
                             [c \in DOMAIN @[i] \cup {col} |->
                                 IF c = col THEN StrCell("") ELSE @[i][c]]]])
         ELSE IF Len(r.df.data) # 0
              THEN Raise("ValueError: Length of values does not match length of index")
              ELSE Return([r.df EXCEPT !.columns = Append(@, col)])

RECURSIVE ensure_columns(_, _)
ensure_columns(r, k) ==
    IF k > Len(BaseColumns) THEN r
    ELSE ensure_columns(ensure_column(r, BaseColumns[k]), k + 1)

\* line 61: df = df[list(base.columns)]
select_base(d) ==
    [d EXCEPT !.columns = BaseColumns,
              !.data = [i \in DOMAIN @ |-> [c \in Range(BaseColumns) |-> @[i][c]]]]

\* the mutant of coerce_status: the status is converted but not checked
coerce_status_unchecked(cell) == astype_string(cell)

\* line 68: keep a status that isin(STATUS_OPTIONS), else "Planned"
coerce_status(cell) ==
    IF cell.kind = "str" /\ cell.val \in Range(STATUS_OPTIONS)
    THEN astype_string(cell) ELSE StrCell("Planned")

\* lines 64-68
coerce_dtypes(d) ==
    [d EXCEPT !.data = [i \in DOMAIN @ |->
        [c \in DOMAIN @[i] |->
            IF c = "Status" THEN coerce_status(@[i][c]) ELSE astype_string(@[i][c])]]]

normalize_df(d) ==
    LET r == ensure_columns(Return(d), 1)
    IN  IF ~r.ok THEN r ELSE Return(coerce_dtypes(select_base(r.df)))

(***************************************************************************)
(* df_to_csv_bytes: the five canonical columns as CSV text.  to_csv writes *)
(* a missing value as an empty field.                                      *)
(***************************************************************************)
to_csv_field(cell) ==
    CASE cell.kind = "na" -> ""
      [] cell.kind = "str" -> cell.val
      [] cell.kind = "int" -> ToString(cell.val)
      [] cell.kind = "float" -> ToString(cell.val) \o ".0"
      [] cell.kind = "bool" -> IF cell.val THEN "True" ELSE "False"

df_to_csv_bytes(d) ==
    [ok |-> TRUE,
     header |-> BaseColumns,
     records |-> [i \in DOMAIN d.data |->
                    [c \in Range(BaseColumns) |-> to_csv_field(d.data[i][c])]]]

(***************************************************************************)
(* The body of the try block of the load handler (lines 148-149).          *)
(***************************************************************************)
parse_and_normalize(doc) ==
    LET p == read_csv(doc)
    IN  IF ~p.ok THEN p ELSE normalize_df(p.df)

(***************************************************************************)
(* The session.  A run of the script is a function of the file the         *)
(* uploader holds, the button clicked (at most one per run), the edit made *)
(* in the data editor and the Set Schedule click.  s is the session state  *)
(* [df, current_filename] with the notices shown so far in the run.        *)
(***************************************************************************)
Columns(d) == Range(d.columns)

Notice(s, n) == [s EXCEPT !.notices = @ \cup {n}]

\* the mutant of load_step: the parsed table is stored before it is normalized
load_step_partial(s, held) ==
    IF held = <<>> THEN s
    ELSE LET p == read_csv(held[1].content)
             r == IF p.ok THEN normalize_df(p.df) ELSE p
         IN  IF r.ok
             THEN Notice([s EXCEPT !.df = r.df,
                                   !.current_filename = held[1].name], "Loaded")
             ELSE IF p.ok
                  THEN Notice([s EXCEPT !.df = p.df], "Could not parse this file")
                  ELSE Notice(s, "Could not parse this file")

\* lines 144-154: the uploader's file, when it holds one, is read on every run
load_step(s, held) ==
    IF held = <<>> THEN s
    ELSE LET r == parse_and_normalize(held[1].content)
         IN  IF r.ok
             THEN Notice([s EXCEPT !.df = r.df,
                                   !.current_filename = held[1].name], "Loaded")
             ELSE Notice(s, "Could not parse this file")

\* lines 157-160
new_blank(s) ==
    Notice([s EXCEPT !.df = make_empty_df,
                     !.current_filename = FILE_TEMPLATE_NAME], "Blank TaskDB created")

\* lines 177-183
new_row(now) ==
    [c \in Range(BaseColumns) |->
        CASE c = "Entry" -> StrCell(now)
          [] c = "Status" -> StrCell("Planned")
          [] OTHER -> StrCell("")]

\* line 184: pd.concat([df, pd.DataFrame([new_row])], ignore_index=True);
\* a column the new row lacks is missing in it, and the index is renumbered
concat_row(d, row) ==
    [columns |-> d.columns,
     index |-> RangeIndex(Len(d.data) + 1),
     data |-> Append(d.data,
                [c \in Columns(d) |-> IF c \in DOMAIN row THEN row[c] ELSE NA])]

\* lines 175-184
add_task(s, now) == [s EXCEPT !.df = concat_row(@, new_row(now))]

\* the elements of seq a boolean mask keeps, in order
RECURSIVE Keep(_, _, _)
Keep(seq, mask, i) ==
    IF i > Len(seq) THEN <<>>
    ELSE (IF mask[i] THEN <<seq[i]>> ELSE <<>>) \o Keep(seq, mask, i + 1)

\* line 190: df[df["_delete"] != True].drop(columns=["_delete"]); the rows kept
\* keep their index labels
drop_marked(d) ==
    LET mask == [i \in DOMAIN d.data |-> d.data[i]["_delete"] # BoolCell(TRUE)]
        rows == Keep(d.data, mask, 1)
    IN  [columns |-> SelectSeq(d.columns, LAMBDA c : c # "_delete"),
         index |-> Keep(d.index, mask, 1),
         data |-> [i \in DOMAIN rows |->
                     [c \in Columns(d) \ {"_delete"} |-> rows[i][c]]]]

\* lines 187-192
remove_marked(s) ==
    IF "_delete" \in Columns(s.df)
    THEN [s EXCEPT !.df = drop_marked(@)]
    ELSE Notice(s, "Tick the Delete? checkboxes in the table first")

\* line 252: the table the editor is given
editor_input(d) ==
    IF "_delete" \notin Columns(d)
    THEN [d EXCEPT !.columns = Append(@, "_delete"),
                   !.data = [i \in DOMAIN @ |->
                               [c \in DOMAIN @[i] \cup {"_delete"} |->
                                   IF c = "_delete" THEN BoolCell(FALSE) ELSE @[i][c]]]]
    ELSE d

NoEdit == [kind |-> "none"]
CellEdit(i, c, v) == [kind |-> "cell", row |-> i, col |-> c, val |-> v]
RowAdded(st) == [kind |-> "add", status |-> st]

IsRangeIndex(d) == d.index = RangeIndex(Len(d.index))

\* lines 251-257: st.data_editor returns its input with the user's edit applied.
\* Edits address rows by position.  With num_rows="dynamic" the user may append
\* a row: the disabled Entry column stays empty in it, Status is required,
\* _delete takes its default.  (Deleting a row inside the editor, and edits of
\* earlier runs that the widget may replay, are left out.)
data_editor(d, e) ==
    CASE e.kind = "none" -> d
      [] e.kind = "cell" -> [d EXCEPT !.data[e.row][e.col] = e.val]
      [] e.kind = "add" ->
            [d EXCEPT !.index = Append(@, Len(@)),
                      !.data = Append(@, [c \in Columns(d) |->
                                  CASE c = "Status" -> StrCell(e.status)
                                    [] c = "_delete" -> BoolCell(FALSE)
                                    [] OTHER -> NA])]

\* lines 251-260
editor_step(s, e) == [s EXCEPT !.df = data_editor(editor_input(@), e)]

\* line 280: df.loc[rzero, "Schedule"] = iso_val.  .loc addresses the row whose
\* index LABEL is rzero; a label the index lacks is appended as a new row whose
\* other cells are missing (setting with enlargement).
loc_set(d, label, col, v) ==
    IF \E i \in DOMAIN d.index : d.index[i] = label
    THEN [d EXCEPT !.data = [i \in DOMAIN @ |->
                      IF d.index[i] = label THEN [@[i] EXCEPT ![col] = v] ELSE @[i]]]
    ELSE [d EXCEPT !.index = Append(@, label),
                   !.data = Append(@, [c \in Columns(d) |->
                                          IF c = col THEN v ELSE NA])]

NoSchedule == [idx |-> 0, iso_val |-> ""]

\* lines 268-282; idx is the 1-based row number, rzero = idx - 1
set_schedule(s, sch) ==
    IF Len(s.df.data) > 0 /\ sch.idx >= 1
    THEN Notice([s EXCEPT !.df = loc_set(@, sch.idx - 1, "Schedule",
                                         StrCell(sch.iso_val))], "schedule set")
    ELSE s

NoButton == [kind |-> "none"]

\* lines 195-202: the table is only read; a download button is shown
commit_download(s) == Notice(s, "Download")

\* lines 157-202: the button clicked in this run
button_step(s, b) ==
    CASE b.kind = "none" -> s
      [] b.kind = "new" -> new_blank(s)
      [] b.kind = "add" -> add_task(s, b.now)
      [] b.kind = "remove" -> remove_marked(s)
      [] b.kind = "commit" -> commit_download(s)

\* The state of the session at each point of a run, top to bottom.
AtStart == [df |-> df, current_filename |-> current_filename, notices |-> {}]
AfterLoad(held) == load_step(AtStart, held)
AfterButton(held, b) == button_step(AfterLoad(held), b)
AfterEditor(held, b, e) == editor_step(AfterButton(held, b), e)
AfterRun(held, b, e, sch) == set_schedule(AfterEditor(held, b, e), sch)

RunScript(ev, held, b, e, sch) ==
    LET s == AfterRun(held, b, e, sch)
    IN  /\ runs < MaxRuns
        /\ event' = ev
        /\ Len(s.df.data) <= MaxRows
        /\ runs' = runs + 1
        /\ up' = held
        /\ df' = s.df
        /\ current_filename' = s.current_filename
        /\ notices' = s.notices
        /\ UNCHANGED <<normVars, fmtVars>>

(***************************************************************************)
(* The files a user may put into the uploader.                             *)
(***************************************************************************)
Rec(e, t, k, sc, st) ==
    [c \in Range(BaseColumns) |->
        CASE c = "Entry" -> e [] c = "Title / Description" -> t
          [] c = "Task" -> k [] c = "Schedule" -> sc [] c = "Status" -> st]

TasksCsv ==
    [name |-> "tasks.csv",
     content |-> [ok |-> TRUE, header |-> BaseColumns,
                  records |-> << Rec(T1, "x", "a", "", "Done") >>]]

\* a hand-edited file without the Status column
OldCsv ==
    [name |-> "old.csv",
     content |-> [ok |-> TRUE,
                  header |-> <<"Entry", "Title / Description">>,
                  records |-> << [c \in {"Entry", "Title / Description"} |->
                                    IF c = "Entry" THEN T2 ELSE "y"] >>]]

\* a file that is no CSV
NotesTxt == [name |-> "notes.csv", content |-> NotCsv]

Files == {TasksCsv, OldCsv, NotesTxt}

Nows == {T1, T2}                \* what now_iso() may return
ScheduleTimes == {T2}           \* what datetime.combine(d, t) may give

\* what the user types, picks or ticks in a cell of the editor
EditValues(c) ==
    CASE c = "Title / Description" -> {StrCell("t")}
      [] c = "Task" -> {StrCell("a")}
      [] c = "Schedule" -> {StrCell(iso) : iso \in ScheduleTimes}
      [] c = "Status" -> {StrCell("Done")}
      [] c = "_delete" -> {BoolCell(TRUE)}

\* the columns of the editor that are not disabled (lines 211-246)
EditableColumns == {"Title / Description", "Task", "Schedule", "Status", "_delete"}

(***************************************************************************)
(* The user events, each one run of the script.                            *)
(***************************************************************************)
UploadFile == \E f \in Files : RunScript("upload", <<f>>, NoButton, NoEdit, NoSchedule)

ClearUpload == up # <<>> /\ RunScript("clear upload", <<>>, NoButton, NoEdit, NoSchedule)

ClickNew == RunScript("Create New Blank File", up, [kind |-> "new"], NoEdit, NoSchedule)

ClickAdd == \E now \in Nows :
    RunScript("Add Task", up, [kind |-> "add", now |-> now], NoEdit, NoSchedule)

ClickRemove == RunScript("Remove Marked", up, [kind |-> "remove"], NoEdit, NoSchedule)

ClickCommit == RunScript("Commit & Download", up, [kind |-> "commit"], NoEdit, NoSchedule)

EditCell ==
    \E i \in 1..Len(AfterLoad(up).df.data), c \in EditableColumns :
        \E v \in EditValues(c) :
            RunScript("edit cell", up, NoButton, CellEdit(i, c, v), NoSchedule)

EditorAddRow ==
    /\ IsRangeIndex(AfterLoad(up).df)
    /\ \E st \in {"In Progress"} :
          RunScript("add row in editor", up, NoButton, RowAdded(st), NoSchedule)

ClickSetSchedule ==
    \E idx \in 1..Len(AfterLoad(up).df.data), iso \in ScheduleTimes :
        RunScript("Set Schedule", up, NoButton, NoEdit, [idx |-> idx, iso_val |-> iso])

\* the state after the first run of a new session: nothing uploaded, no click
SessionInit ==
    /\ df = editor_input(make_empty_df)
    /\ current_filename = FILE_TEMPLATE_NAME
    /\ up = <<>>
    /\ notices = {}
    /\ runs = 1
    /\ event = "start"

Init ==
    /\ SessionInit
    /\ content = NotCsv
    /\ loaded = NotRun
    /\ iso_str = <<>>
    /\ friendly = ""

Next ==
    \/ UploadFile
    \/ ClearUpload
    \/ ClickNew
    \/ ClickAdd
    \/ ClickRemove
    \/ ClickCommit
    \/ EditCell
    \/ EditorAddRow
    \/ ClickSetSchedule

Spec == Init /\ [][Next]_vars

(***************************************************************************)
(* SpecNorm: read_csv and normalize_df over every CSV text of the bounded  *)
(* family below: any non-empty subset of the five columns, possibly an     *)
(* extra one, up to MaxFileRows records, cells that are empty, text or     *)
(* numerals, statuses inside and outside STATUS_OPTIONS; and text that is  *)
(* no CSV.                                                                 *)
(***************************************************************************)
FileColumns == BaseColumns \o <<"Extra">>

FileTexts(c) ==
    CASE c = "Entry" -> {"", T1}
      [] c = "Title / Description" -> {"", "07"}
      [] c = "Task" -> {"a"}
      [] c = "Schedule" -> {"", T1}
      [] c = "Status" -> {"", "In Progress", "Done", "done", "InProgress"}
      [] c = "Extra" -> {"x"}

Pick(S, c) == IF c \in S THEN FileTexts(c) ELSE {""}

RecordsOver(S) ==
    { [c \in S |-> CASE c = "Entry" -> e
                     [] c = "Title / Description" -> t
                     [] c = "Task" -> k
                     [] c = "Schedule" -> s
                     [] c = "Status" -> st
                     [] c = "Extra" -> x] :
        e \in Pick(S, "Entry"), t \in Pick(S, "Title / Description"),
        k \in Pick(S, "Task"), s \in Pick(S, "Schedule"),
        st \in Pick(S, "Status"), x \in Pick(S, "Extra") }

\* the header of a file that holds the columns S
Header(S) == SelectSeq(FileColumns, LAMBDA c : c \in S)

InitNorm ==
    /\ SessionInit
    /\ content \in {NotCsv} \cup
                   { [ok |-> TRUE, header |-> Header(S), records |-> <<>>] :
                       S \in (SUBSET Range(FileColumns)) \ {{}} }
    /\ loaded = NotRun
    /\ iso_str = <<>>
    /\ friendly = ""

\* one more record is written into the file
AddRecord ==
    /\ loaded = NotRun
    /\ content.ok
    /\ Len(content.records) < MaxFileRows
    /\ \E r \in RecordsOver(Range(content.header)) :
          content' = [content EXCEPT !.records = Append(@, r)]
    /\ UNCHANGED <<loaded, sessionVars, fmtVars>>

\* the file is read: pd.read_csv, then normalize_df
Load ==
    /\ loaded = NotRun
    /\ loaded' = parse_and_normalize(content)
    /\ UNCHANGED <<content, sessionVars, fmtVars>>

NextNorm == AddRecord \/ Load

SpecNorm == InitNorm /\ [][NextNorm]_vars

(***************************************************************************)
(* iso_to_friendly.  The argument is the text "2025-10-DDThh:mm:00" given  *)
(* by its day and the two digits of its hour and of its minute, or the     *)
(* empty text, written <<>>.  datetime.fromisoformat raises on an hour     *)
(* above 23 or a minute above 59.                                          *)
(***************************************************************************)
Digit(n) == ToString(n)

RECURSIVE Join(_)
Join(chars) == IF chars = <<>> THEN "" ELSE Head(chars) \o Join(Tail(chars))

\* f"{n:02d}" and strftime's zero-padded fields, as characters
TwoDigits(n) == <<Digit(n \div 10), Digit(n % 10)>>

IsoText(iso) ==
    "2025-10-" \o Join(TwoDigits(iso.day)) \o "T" \o Digit(iso.hh[1]) \o Digit(iso.hh[2])
        \o ":" \o Digit(iso.mm[1]) \o Digit(iso.mm[2]) \o ":00"

\* line 27
fromisoformat(iso) ==
    LET hour == 10 * iso.hh[1] + iso.hh[2]
        minute == 10 * iso.mm[1] + iso.mm[2]
    IN  IF hour <= 23 /\ minute <= 59 /\ iso.day \in 1..31
        THEN [ok |-> TRUE, day |-> iso.day, hour |-> hour, minute |-> minute]
        ELSE [ok |-> FALSE]

\* lines 17-20
_ordinal(n) ==
    IF 11 <= n % 100 /\ n % 100 <= 13 THEN ToString(n) \o "th"
    ELSE ToString(n) \o
         <<"th", "st", "nd", "rd", "th", "th", "th", "th", "th", "th">>[(n % 10) + 1]

\* strftime('%I'): the hour of the 12-hour clock, two digits
strftime_I(dt) == TwoDigits(IF dt.hour % 12 = 0 THEN 12 ELSE dt.hour % 12)

\* strftime('%p')
strftime_p(dt) == IF dt.hour < 12 THEN "AM" ELSE "PM"

\* strftime('%A') of a day of October 2025 (the 1st is a Wednesday)
strftime_A(dt) ==
    <<"Monday", "Tuesday", "Wednesday", "Thursday", "Friday", "Saturday",
      "Sunday">>[((dt.day + 1) % 7) + 1]

RECURSIVE lstrip(_, _)
lstrip(chars, ch) ==
    IF chars # <<>> /\ Head(chars) = ch THEN lstrip(Tail(chars), ch) ELSE chars

lower(t) == IF t = "AM" THEN "am" ELSE IF t = "PM" THEN "pm" ELSE t

\* the mutant of time_str: the minutes are always written
time_str_minutes_always(dt) ==
    LET stripped == Join(lstrip(strftime_I(dt), "0"))
        h == IF stripped = "" THEN "0" ELSE stripped
    IN  h \o ":" \o Join(TwoDigits(dt.minute)) \o " " \o lower(strftime_p(dt))

\* lines 33-36
time_str(dt) ==
    LET stripped == Join(lstrip(strftime_I(dt), "0"))
        h == IF stripped = "" THEN "0" ELSE stripped
        m == dt.minute
        ampm == lower(strftime_p(dt))
    IN  IF ampm = "pm" /\ m = 0 THEN h \o " pm"
        ELSE IF m > 0 THEN h \o ":" \o Join(TwoDigits(m)) \o " " \o ampm
        ELSE h \o " " \o ampm

\* lines 28-31: day, month, year and weekday of the friendly text
date_str(dt) == _ordinal(dt.day) \o " October 2025, " \o strftime_A(dt)

\* line 25: the one-character text U+2014 (em dash), written here in ASCII
Placeholder == "<U+2014>"

\* lines 22-39
iso_to_friendly(iso) ==
    IF iso = <<>> THEN Placeholder
    ELSE LET dt == fromisoformat(iso)
         IN  IF dt.ok THEN date_str(dt) \o ", " \o time_str(dt)
             ELSE IsoText(iso)

(***************************************************************************)
(* SpecFmt: iso_to_friendly over the empty text and every day, hour        *)
(* 00..29 and minute 00..69 of the family below, so that the texts         *)
(* fromisoformat rejects are among the inputs.                             *)
(***************************************************************************)
Days == {1, 2, 3, 4, 11, 12, 13, 17, 21, 22, 23, 31}

IsoInputs ==
    {<<>>} \cup
    { [day |-> d, hh |-> <<h1, h2>>, mm |-> <<m1, m2>>] :
        d \in Days, h1 \in 0..2, h2 \in 0..9, m1 \in 0..6, m2 \in 0..9 }

NotFormatted == ""

InitFmt ==
    /\ SessionInit
    /\ content = NotCsv
    /\ loaded = NotRun
    /\ iso_str \in IsoInputs
    /\ friendly = NotFormatted

Format ==
    /\ friendly = NotFormatted
    /\ friendly' = iso_to_friendly(iso_str)
    /\ UNCHANGED <<iso_str, sessionVars, normVars>>

NextFmt == Format

SpecFmt == InitFmt /\ [][NextFmt]_vars

(***************************************************************************)
(* Properties.                                                             *)
(***************************************************************************)
\* the five fields of every row, in row order
Five(d) == [i \in DOMAIN d.data |-> [c \in Range(BaseColumns) |-> d.data[i][c]]]

\* C1 (Spec): round trip.  A table built from make_empty_df by the session's
\* operations (no file has replaced it: current_filename is still the template
\* name) is field-for-field what read_csv + normalize_df give back from its
\* df_to_csv_bytes, empty texts included.
C1_RoundTrip ==
    current_filename = FILE_TEMPLATE_NAME =>
        LET back == parse_and_normalize(df_to_csv_bytes(df))
        IN  back.ok /\ Five(back.df) = Five(df)

\* C2 (SpecNorm): normalize_df is total.  Whatever table read_csv returns
\* (columns missing, Status among them, an extra column, any number of rows,
\* any cell types), normalize_df returns a table.
C2_NormalizeTotal ==
    (loaded # NotRun /\ content.ok) => loaded.ok

\* the statuses as C3 spells them
ClaimedStatuses == {"Planned", "InProgress", "Done"}

StatusCoercedInto(options) ==
    loaded.ok =>
        /\ Len(loaded.df.data) = Len(content.records)
        /\ \A i \in DOMAIN loaded.df.data :
              LET out == loaded.df.data[i]["Status"]
                  given == "Status" \in Range(content.header)
              IN  /\ out.kind = "str"
                  /\ out.val \in options
                  /\ IF given /\ content.records[i]["Status"] \in options
                     THEN out.val = content.records[i]["Status"]
                     ELSE out.val = "Planned"

\* C3 as claimed (SpecNorm): in the table normalize returns every status is one
\* of Planned, InProgress, Done; an input status equal to one of the three is
\* kept and any other (other casing, other text, missing, empty) is Planned.
C3_StatusCoercion_AsClaimed == StatusCoercedInto(ClaimedStatuses)

\* C3 as amended (SpecNorm): the same with the three values of STATUS_OPTIONS,
\* "Planned", "In Progress" (with a space) and "Done".
C3_StatusCoercion == StatusCoercedInto(Range(STATUS_OPTIONS))

\* C3's case: one status of STATUS_OPTIONS kept and one of another casing coerced
C3_Witness ==
    /\ loaded.ok
    /\ "Status" \in Range(content.header)
    /\ \E i, j \in DOMAIN content.records :
          /\ content.records[i]["Status"] = "In Progress"
          /\ loaded.df.data[i]["Status"] = StrCell("In Progress")
          /\ content.records[j]["Status"] = "done"
          /\ loaded.df.data[j]["Status"] = StrCell("Planned")

\* C4 (SpecNorm): after normalize each of the four text fields of every row is
\* a text, and a value absent from the input (its column missing, or its cell
\* empty) is the empty text, never the missing-value marker.
C4_TextFieldsAreText ==
    loaded.ok =>
        \A i \in DOMAIN loaded.df.data : \A c \in TextColumns :
            LET cell == loaded.df.data[i][c]
                absent == c \notin Range(content.header) \/ content.records[i][c] = ""
            IN  /\ cell.kind = "str"
                /\ absent => cell = StrCell("")

\* C5 (Spec): in every state of the session every row's Entry is the instant
\* now_iso() stamped at its creation: a text, not blank, not missing.
C5_EntryTimeNeverBlank ==
    \A i \in DOMAIN df.data :
        df.data[i]["Entry"].kind = "str" /\ df.data[i]["Entry"].val \in Nows

\* C6 (Spec): a Set Schedule click (no file held, so that the run starts from
\* the table as it is) changes the Schedule of the row at the chosen position
\* and nothing else: no other field, no other row, no new row.
C6_SetScheduleFrame ==
    [][ (up = <<>> /\ event' = "Set Schedule") =>
          \E idx \in DOMAIN df.data, iso \in ScheduleTimes :
              df' = [df EXCEPT !.data[idx]["Schedule"] = StrCell(iso)] ]_vars

\* the rows of d that are not marked for deletion, in order
Unmarked(d) ==
    Keep(Five(d), [i \in DOMAIN d.data |-> d.data[i]["_delete"] # BoolCell(TRUE)], 1)

\* C7 (Spec): a click on Remove Marked, with rows marked, leaves exactly the
\* rows that were not marked, in their order, their five fields unchanged.
C7_RemoveExactlyMarked ==
    [][ (event' = "Remove Marked"
           /\ \E i \in DOMAIN df.data : df.data[i]["_delete"] = BoolCell(TRUE))
          => Five(df') = Unmarked(df) ]_vars

\* C8 (Spec): loading a file is all-or-nothing.  When read_csv or normalize_df
\* raises, the table and the file name are what they were; when they succeed,
\* the rows of the table are the normalized rows of the file, none of the
\* prior table among them.
C8_LoadAllOrNothing ==
    [][ event' = "upload" =>
          LET f == up'[1]
              r == parse_and_normalize(f.content)
          IN  IF r.ok
              THEN Five(df') = Five(r.df) /\ current_filename' = f.name
              ELSE df' = df /\ current_filename' = current_filename ]_vars

\* C8's case: the upload of a file that normalize_df rejects has failed over a
\* table that holds rows
C8_Witness ==
    /\ event = "upload"
    /\ up = <<OldCsv>>
    /\ "Could not parse this file" \in notices
    /\ Len(df.data) > 0

\* the time part C9 describes, for hour h and minute m
ClaimedTime(h, m) ==
    ToString(IF h = 0 THEN 12 ELSE IF h > 12 THEN h - 12 ELSE h)
        \o (IF m = 0 THEN "" ELSE ":" \o ToString(m \div 10) \o ToString(m % 10))
        \o (IF h <= 11 THEN " am" ELSE " pm")

\* C9 (SpecFmt): for a parseable timestamp the friendly text ends with
\* "<h> <am/pm>" when the minute is zero and "<h>:<mm> <am/pm>" otherwise, h the
\* hour of the 12-hour clock without leading zero, 12 at noon and midnight.
C9_TimePart ==
    (friendly # NotFormatted /\ iso_str # <<>> /\ fromisoformat(iso_str).ok) =>
        LET dt == fromisoformat(iso_str)
        IN  friendly = date_str(dt) \o ", " \o ClaimedTime(dt.hour, dt.minute)

\* C9's case: 2025-10-17T17:07:00 has been formatted
C9_Witness ==
    /\ iso_str = [day |-> 17, hh |-> <<1, 7>>, mm |-> <<0, 7>>]
    /\ friendly = "17th October 2025, Friday, 5:07 pm"

\* C10 (Spec): with a file loaded, every row of the table is still there (by
\* its Entry) after a run caused by any event that is no upload, no Create New
\* Blank File and no Remove Marked.
C10_MutationsSurvive ==
    [][ (up # <<>> /\ "Loaded" \in notices
           /\ event' \notin {"upload", "Create New Blank File", "Remove Marked"}) =>
          \A i \in DOMAIN df.data : \E j \in DOMAIN df'.data :
              df'.data[j]["Entry"] = df.data[i]["Entry"] ]_vars

====
